---- MODULE Spec2Model ----
(***************************************************************************)
(* Index-relevance selection of the query planner                          *)
(* (src/mongo/db/query/planner_ixselect.cpp): getFields,                   *)
(* findRelevantIndices, compatible, rateIndices and                        *)
(* stripInvalidAssignmentsToTextIndexes.                                   *)
(*                                                                         *)
(* A predicate tree is a sequence of nodes numbered in preorder; node n    *)
(* is [kind, path, data, parent] and its children are the nodes whose      *)
(* parent is n, in ascending order.  Tags are objects of a heap: tag[n] is *)
(* NULL (0) or the position in 'heap' of the RelevantTag node n owns.      *)
(* 'fields' and 'relevantIndices' are the out-parameters of getFields and  *)
(* findRelevantIndices.                                                    *)
(***************************************************************************)
EXTENDS Naturals, Integers, Sequences, FiniteSets, TLC

VARIABLES tree, indices, tag, heap, pc, verifyFailed, fields, relevantIndices

vars == <<tree, indices, tag, heap, pc, verifyFailed, fields, relevantIndices>>

(* ----------------------------- bounds --------------------------------- *)

\* Largest number of nodes of a generated predicate tree.
MaxNodes == 4

\* Largest number of entries of a generated index list.
MaxIndexes == 2

(* -------------------- MatchExpression (matcher/expression.h) ---------- *)

NULL == 0

LeafKinds == {"EQ", "GT", "MATCH_IN", "REGEX", "MOD", "TEXT", "GEO", "GEO_NEAR"}

LogicalKinds == {"AND", "OR", "NOT", "NOR"}

ArrayKinds == {"ELEM_MATCH_OBJECT", "ALL"}

matchType(t, n) == t[n].kind

path(t, n) == t[n].path

\* Ascending sequence of the elements of a finite set of naturals.
RECURSIVE SortedSeq(_)
SortedSeq(S) ==
    IF S = {} THEN <<>>
    ELSE LET m == CHOOSE x \in S : \A y \in S : x <= y
         IN  <<m>> \o SortedSeq(S \ {m})

\* node->getChild(0..numChildren-1), in order.
Children(t, n) == SortedSeq({m \in DOMAIN t : t[m].parent = n})

numChildren(t, n) == Len(Children(t, n))

getChild(t, n, i) == Children(t, n)[i + 1]

isLogical(t, n) == matchType(t, n) \in LogicalKinds

\* Proper ancestors of node n.
RECURSIVE Ancestors(_, _)
Ancestors(t, n) ==
    IF t[n].parent = 0 THEN {}
    ELSE {t[n].parent} \cup Ancestors(t, t[n].parent)

(* -------------------- Indexability (query/indexability.h) ------------- *)

\* A leaf predicate over its own field.
nodeCanUseIndexOnOwnField(t, n) == matchType(t, n) \in LeafKinds

\* An array operator whose children's paths are relative to its own path.
arrayUsesIndexOnChildren(t, n) == matchType(t, n) \in ArrayKinds

isBoundsGeneratingNot(t, n) ==
    /\ matchType(t, n) = "NOT"
    /\ nodeCanUseIndexOnOwnField(t, getChild(t, n, 0))

isBoundsGenerating(t, n) ==
    isBoundsGeneratingNot(t, n) \/ nodeCanUseIndexOnOwnField(t, n)

(* -------------------- leaf payloads ----------------------------------- *)

\* EqualityMatchExpression::getData().isNull()
isNull(t, n) == t[n].data = "null"

\* GeometryContainer of a GEO leaf.
hasS2Region(t, n) == t[n].data \in {"cap_in", "cap_wrap", "s2_intersect"}

hasFlatRegion(t, n) == t[n].data = "flat"

getPred(t, n) == IF t[n].data = "s2_intersect" THEN "INTERSECT" ELSE "WITHIN"

hasCap(t, n) == t[n].data \in {"cap_in", "cap_wrap"}

\* The cap's circle, with the scan distances the geometry library derives
\* from its radius, in whole degrees.
circleOf(t, n) ==
    IF t[n].data = "cap_in"
    THEN [x |-> 0, y |-> 0, xscandist |-> 10, yscandist |-> 10]
    ELSE [x |-> 175, y |-> 0, xscandist |-> 10, yscandist |-> 10]

\* NearQuery of a GEO_NEAR leaf.
centroidCrs(t, n) == IF t[n].data = "sphere" THEN "SPHERE" ELSE "FLAT"

isNearSphere(t, n) == t[n].data = "flat_nearSphere"

(* -------------------- twoDWontWrap ------------------------------------ *)

\* The index's bits/min/max only enter through the converter's error, which
\* is part of the circle's scan distances here.
twoDWontWrap(circle, index) ==
    /\ circle.x + circle.xscandist < 180
    /\ circle.x - circle.xscandist > -180
    /\ circle.y + circle.yscandist < 90
    /\ circle.y - circle.yscandist > -90

(* -------------------- getFields --------------------------------------- *)

\* The path inserted for a node with the path taken alone.
getFieldsPathRelative(t, n, prefix) == path(t, n)

\* prefix + node->path().toString()
getFieldsPath(t, n, prefix) == prefix \o path(t, n)

\* The prefix handed to the children of an array operator.
getFieldsPrefix(t, n, prefix) ==
    IF path(t, n) # "" THEN prefix \o path(t, n) \o "." ELSE prefix

RECURSIVE getFields(_, _, _, _)
RECURSIVE getFieldsChildren(_, _, _, _, _)

getFieldsChildren(out, t, n, prefix, i) ==
    IF i >= numChildren(t, n) THEN out
    ELSE getFieldsChildren(getFields(out, t, getChild(t, n, i), prefix),
                           t, n, prefix, i + 1)

getFields(out, t, n, prefix) ==
    IF matchType(t, n) = "NOR" THEN out
    ELSE IF nodeCanUseIndexOnOwnField(t, n) THEN out \cup {getFieldsPath(t, n, prefix)}
    ELSE IF arrayUsesIndexOnChildren(t, n) THEN
        getFieldsChildren(out, t, n, getFieldsPrefix(t, n, prefix), 0)
    ELSE IF isLogical(t, n) THEN
        getFieldsChildren(out, t, n, prefix, 0)
    ELSE out

(* -------------------- findRelevantIndices ----------------------------- *)

\* The loop from entry i on: an entry is pushed back exactly if the name of
\* its first key element is in 'fields'.
RECURSIVE findRelevantIndices(_, _, _, _)
findRelevantIndices(out, flds, allIndices, i) ==
    IF i > Len(allIndices) THEN out
    ELSE LET elt == allIndices[i].keyPattern[1]
         IN  findRelevantIndices(
                 IF elt.fieldName \in flds THEN Append(out, allIndices[i]) ELSE out,
                 flds, allIndices, i + 1)

(* -------------------- compatible -------------------------------------- *)

\* The outcome of a call that returns a bool: "true" or "false"; a call that
\* does not return has the failed assertion as its outcome.
returns(b) == IF b THEN "true" ELSE "false"

Returned == {"true", "false"}

\* The text branch's scan of the key pattern from element k on: true at the
\* first String element, false at an element named node->path() before it,
\* invariant(0) once the key pattern is exhausted.
RECURSIVE textScan(_, _, _)
textScan(kp, nodePath, k) ==
    IF k > Len(kp) THEN "invariant(0)"
    ELSE IF kp[k].type = "String" THEN "true"
    ELSE IF nodePath = kp[k].fieldName THEN "false"
    ELSE textScan(kp, nodePath, k + 1)

indexedFieldTypeOf(elt, index) ==
    IF elt.type # "String" \/ index.type = "INDEX_BTREE" THEN "" ELSE elt.str

\* "Can't check for null w/a sparse index."
nullOnSparse(index, t, n) ==
    matchType(t, n) = "EQ" /\ index.sparse /\ isNull(t, n)

\* The restrictions on a NOT over an ordinary key element.
negationBlockedSparseOnly(index, t, n) ==
    /\ matchType(t, n) = "NOT"
    /\ \/ index.sparse
       \/ matchType(t, getChild(t, n, 0)) \in {"REGEX", "MOD"}

negationBlocked(index, t, n) ==
    /\ matchType(t, n) = "NOT"
    /\ \/ index.sparse \/ index.multikey
       \/ matchType(t, getChild(t, n, 0)) \in {"REGEX", "MOD"}

\* An ordinary key element of a text index.
textPrefixCompatible(index, t, n) ==
    IF matchType(t, n) = "EQ" THEN "true"
    ELSE textScan(index.keyPattern, path(t, n), 1)

compatibleHashedAnyLeaf(exprtype) == exprtype # "NOT"

compatibleHashed(exprtype) == exprtype = "MATCH_IN" \/ exprtype = "EQ"

compatible2dsphere(t, n) ==
    IF matchType(t, n) = "GEO" THEN hasS2Region(t, n)
    ELSE IF matchType(t, n) = "GEO_NEAR"
    THEN centroidCrs(t, n) = "SPHERE" \/ isNearSphere(t, n)
    ELSE FALSE

compatible2d(index, t, n) ==
    IF matchType(t, n) = "GEO_NEAR" THEN centroidCrs(t, n) = "FLAT"
    ELSE IF matchType(t, n) = "GEO" THEN
        IF getPred(t, n) # "WITHIN" THEN FALSE
        ELSE IF hasFlatRegion(t, n) THEN TRUE
        ELSE IF ~hasCap(t, n) THEN FALSE
        ELSE twoDWontWrap(circleOf(t, n), index)
    ELSE FALSE

compatible(elt, index, t, n) ==
    LET indexedFieldType == indexedFieldTypeOf(elt, index)
        exprtype == matchType(t, n)
    IN  IF indexedFieldType = "" THEN
            IF nullOnSparse(index, t, n) THEN "false"
            ELSE IF exprtype \in {"GEO", "GEO_NEAR"} THEN "false"
            ELSE IF negationBlocked(index, t, n) THEN "false"
            ELSE IF index.type # "INDEX_TEXT" THEN "true"
            ELSE textPrefixCompatible(index, t, n)
        ELSE IF indexedFieldType = "hashed" THEN returns(compatibleHashed(exprtype))
        ELSE IF indexedFieldType = "2dsphere" THEN returns(compatible2dsphere(t, n))
        ELSE IF indexedFieldType = "2d" THEN returns(compatible2d(index, t, n))
        ELSE IF indexedFieldType = "text" THEN returns(exprtype = "TEXT")
        ELSE IF indexedFieldType = "geoHaystack" THEN "false"
        ELSE "verify(0)"

(* -------------------- RelevantTag (query/index_tag.h) ----------------- *)

\* A freshly constructed RelevantTag with its path set.
newRelevantTag(fullPath) == [path |-> fullPath, first |-> <<>>, notFirst |-> <<>>]

\* RelevantTag::clone(): a new object holding copies of both lists.  The
\* result is the heap after the allocation; the clone is its last object.
cloneTag(h, ref) ==
    Append(h, [path |-> "", first |-> h[ref].first, notFirst |-> h[ref].notFirst])

(* -------------------- rateIndices ------------------------------------- *)

\* The loop pushing for every later element named fullPath, accepted or not.
RECURSIVE pushNotFirstUnchecked(_, _, _, _, _, _, _)
pushNotFirstUnchecked(list, id, index, fullPath, t, n, k) ==
    IF k > Len(index.keyPattern) THEN list
    ELSE pushNotFirstUnchecked(
             IF index.keyPattern[k].fieldName = fullPath THEN Append(list, id) ELSE list,
             id, index, fullPath, t, n, k + 1)

\* The call compatible(elt, indices[i], node) the loop makes for a key
\* element named fullPath does not return.
elementFails(elt, index, fullPath, t, n) ==
    elt.fieldName = fullPath /\ compatible(elt, index, t, n) \notin Returned

indexFails(index, fullPath, t, n) ==
    \E k \in DOMAIN index.keyPattern :
        elementFails(index.keyPattern[k], index, fullPath, t, n)

rateLoopFails(idxs, fullPath, t, n) ==
    \E i \in DOMAIN idxs : indexFails(idxs[i], fullPath, t, n)

\* The while loop over the key elements after the first: one push_back of
\* the index id per accepted element named fullPath, up to a call that does
\* not return.
RECURSIVE pushNotFirst(_, _, _, _, _, _, _)
pushNotFirst(list, id, index, fullPath, t, n, k) ==
    IF k > Len(index.keyPattern) THEN list
    ELSE LET elt == index.keyPattern[k]
             hit == elt.fieldName = fullPath /\ compatible(elt, index, t, n) = "true"
         IN  IF elementFails(elt, index, fullPath, t, n) THEN list
             ELSE pushNotFirst(IF hit THEN Append(list, id) ELSE list,
                               id, index, fullPath, t, n, k + 1)

\* The for loop over the index list; ids are the 0-based positions.  The
\* loop ends at the first call of compatible that does not return.
RECURSIVE rateLoop(_, _, _, _, _)
rateLoop(rt, idxs, t, n, i) ==
    IF i > Len(idxs) THEN rt
    ELSE LET index == idxs[i]
             elt == index.keyPattern[1]
             hit == elt.fieldName = rt.path /\ compatible(elt, index, t, n) = "true"
             rt1 == [rt EXCEPT !.first = IF hit THEN Append(@, i - 1) ELSE @]
             rt2 == [rt1 EXCEPT !.notFirst =
                        pushNotFirst(@, i - 1, index, rt.path, t, n, 2)]
         IN  IF elementFails(elt, index, rt.path, t, n) THEN rt
             ELSE IF indexFails(index, rt.path, t, n) THEN rt2
             ELSE rateLoop(rt2, idxs, t, n, i + 1)

\* "Do not traverse tree beyond logical NOR node"
stopsTaggingNever(t, n) == FALSE

stopsTagging(t, n) == matchType(t, n) = "NOR"

\* The path a bounds-generating node is rated for.
fullPathOf(t, n, prefix) ==
    IF matchType(t, n) = "NOT"
    THEN prefix \o path(t, getChild(t, n, 0))
    ELSE prefix \o path(t, n)

\* The prefix handed to the children of an array operator.
childPrefix(t, n, prefix) ==
    IF path(t, n) # "" THEN prefix \o path(t, n) \o "." ELSE prefix

\* verify(NULL == node->getTag()), then node->setTag(new RelevantTag)
\* followed by the rating loop.
tagNode(st, idxs, t, n, fullPath) ==
    IF st.tag[n] # NULL THEN [st EXCEPT !.failed = TRUE]
    ELSE [st EXCEPT !.failed = @ \/ rateLoopFails(idxs, fullPath, t, n),
                    !.heap = Append(@, rateLoop(newRelevantTag(fullPath), idxs, t, n, 1)),
                    !.tag[n] = Len(st.heap) + 1]

\* The child left without a tag.
tagNotChildSkipped(st, t, n) == st

\* The child handed the NOT's own tag object.
tagNotChildShared(st, t, n) == [st EXCEPT !.tag[getChild(t, n, 0)] = st.tag[n]]

\* A bounds-generating NOT hands a clone of its tag, with the same path, to
\* its child.
tagNotChild(st, t, n) ==
    LET h == cloneTag(st.heap, st.tag[n])
        childRt == Len(h)
    IN  [st EXCEPT !.heap = [h EXCEPT ![childRt].path = st.heap[st.tag[n]].path],
                   !.tag[getChild(t, n, 0)] = childRt]

RECURSIVE rateIndices(_, _, _, _, _)
RECURSIVE rateChildren(_, _, _, _, _, _)

rateChildren(st, idxs, t, n, prefix, i) ==
    IF i >= numChildren(t, n) \/ st.failed THEN st
    ELSE rateChildren(rateIndices(st, idxs, t, getChild(t, n, i), prefix),
                      idxs, t, n, prefix, i + 1)

rateIndices(st, idxs, t, n, prefix) ==
    IF stopsTagging(t, n) THEN st
    ELSE IF isBoundsGenerating(t, n) THEN
        LET st1 == tagNode(st, idxs, t, n, fullPathOf(t, n, prefix))
        IN  IF matchType(t, n) = "NOT" /\ ~st1.failed THEN tagNotChild(st1, t, n)
            ELSE st1
    ELSE IF arrayUsesIndexOnChildren(t, n) THEN
        rateChildren(st, idxs, t, n, childPrefix(t, n, prefix), 0)
    ELSE IF isLogical(t, n) THEN
        rateChildren(st, idxs, t, n, prefix, 0)
    ELSE st

(* -------------------- removeIndexRelevantTag -------------------------- *)

\* std::find followed by erase: the first occurrence of x is removed.
RECURSIVE eraseFirst(_, _)
eraseFirst(list, x) ==
    IF list = <<>> THEN <<>>
    ELSE IF Head(list) = x THEN Tail(list)
    ELSE <<Head(list)>> \o eraseFirst(Tail(list), x)

InList(list, x) == \E k \in DOMAIN list : list[k] = x

removeIndexRelevantTag(st, n, idx) ==
    IF st.tag[n] = NULL THEN [st EXCEPT !.failed = TRUE]
    ELSE [st EXCEPT !.heap[st.tag[n]] =
             [@ EXCEPT !.first = eraseFirst(@, idx),
                       !.notFirst = eraseFirst(@, idx)]]

(* -------------------- stripInvalidAssignmentsToTextIndex -------------- *)

RECURSIVE stripInvalidAssignmentsToTextIndex(_, _, _, _, _)
RECURSIVE stripChildren(_, _, _, _, _, _)
RECURSIVE andLoop(_, _, _, _, _, _)

stripChildren(st, t, n, idx, prefixPaths, i) ==
    IF i >= numChildren(t, n) \/ st.failed THEN st
    ELSE stripChildren(
             stripInvalidAssignmentsToTextIndex(st, t, getChild(t, n, i), idx, prefixPaths),
             t, n, idx, prefixPaths, i + 1)

erasePrefixPathForgotten(paths, t, child) == paths

\* childrenPrefixPaths.erase(child->path())
erasePrefixPath(paths, t, child) == paths \ {path(t, child)}

\* The first loop over the children of an AND; r carries the tags, hasText
\* and childrenPrefixPaths.
andLoop(r, t, n, idx, prefixPaths, i) ==
    IF i >= numChildren(t, n) \/ r.st.failed THEN r
    ELSE LET child == getChild(t, n, i)
             ref == r.st.tag[child]
             assigned == /\ ref # NULL
                         /\ \/ InList(r.st.heap[ref].first, idx)
                            \/ InList(r.st.heap[ref].notFirst, idx)
             r1 == IF ~assigned
                   THEN [r EXCEPT !.st = stripInvalidAssignmentsToTextIndex(
                                             r.st, t, child, idx, prefixPaths)]
                   ELSE IF matchType(t, child) = "TEXT"
                   THEN [r EXCEPT !.hasText = TRUE]
                   ELSE [r EXCEPT !.childrenPrefixPaths = erasePrefixPath(@, t, child)]
         IN  andLoop(r1, t, n, idx, prefixPaths, i + 1)

stripInvalidAssignmentsToTextIndex(st, t, n, idx, prefixPaths) ==
    IF nodeCanUseIndexOnOwnField(t, n) THEN removeIndexRelevantTag(st, n, idx)
    ELSE IF matchType(t, n) \in {"NOT", "NOR"} THEN st
    ELSE IF matchType(t, n) # "AND" THEN stripChildren(st, t, n, idx, prefixPaths, 0)
    ELSE LET r == andLoop([st |-> st, hasText |-> FALSE,
                           childrenPrefixPaths |-> prefixPaths],
                          t, n, idx, prefixPaths, 0)
         IN  IF r.st.failed THEN r.st
             ELSE IF ~r.hasText \/ r.childrenPrefixPaths # {}
             THEN stripChildren(r.st, t, n, idx, prefixPaths, 0)
             ELSE r.st

(* -------------------- stripInvalidAssignmentsToTextIndexes ------------ *)

\* The loop gathering the field names before the first String element of a
\* key pattern, from element k on; verify(it.more()) fails after the last
\* element when none is a String.
RECURSIVE textIndexPrefixPaths(_, _)
textIndexPrefixPaths(kp, k) ==
    IF kp[k].type = "String" THEN [paths |-> {}, failed |-> FALSE]
    ELSE IF k = Len(kp) THEN [paths |-> {kp[k].fieldName}, failed |-> TRUE]
    ELSE LET rest == textIndexPrefixPaths(kp, k + 1)
         IN  [rest EXCEPT !.paths = @ \cup {kp[k].fieldName}]

\* The pass run for every index, whatever its type and prefix.
RECURSIVE stripEveryIndex(_, _, _, _)
stripEveryIndex(st, idxs, t, i) ==
    IF i > Len(idxs) THEN st
    ELSE stripEveryIndex(
             stripInvalidAssignmentsToTextIndex(
                 st, t, 1, i - 1, textIndexPrefixPaths(idxs[i].keyPattern, 1).paths),
             idxs, t, i + 1)

RECURSIVE stripInvalidAssignmentsToTextIndexes(_, _, _, _)
stripInvalidAssignmentsToTextIndexes(st, idxs, t, i) ==
    IF i > Len(idxs) \/ st.failed THEN st
    ELSE IF idxs[i].type # "INDEX_TEXT"
    THEN stripInvalidAssignmentsToTextIndexes(st, idxs, t, i + 1)
    ELSE LET prefix == textIndexPrefixPaths(idxs[i].keyPattern, 1)
             st1 == IF prefix.paths # {}
                    THEN stripInvalidAssignmentsToTextIndex(st, t, 1, i - 1, prefix.paths)
                    ELSE st
         IN  IF prefix.failed THEN [st EXCEPT !.failed = TRUE]
             ELSE stripInvalidAssignmentsToTextIndexes(st1, idxs, t, i + 1)

(* -------------------- inputs: predicate trees ------------------------- *)

Label(kind, p, data) == [kind |-> kind, path |-> p, data |-> data]

MkNode(l, parent) ==
    [kind |-> l.kind, path |-> l.path, data |-> l.data, parent |-> parent]

\* A node can take one more child: leaves take none, a NOT exactly one.
CanAdopt(t, p) ==
    /\ t[p].kind \notin LeafKinds
    /\ t[p].kind = "NOT" => numChildren(t, p) = 0

\* Preorder numbering: the next node hangs off the last node or one of its
\* ancestors.
CanExtend(t, p) == p \in {Len(t)} \cup Ancestors(t, Len(t)) /\ CanAdopt(t, p)

RECURSIVE Grow(_, _)
Grow(Labels, k) ==
    IF k = 1 THEN {<<MkNode(l, 0)>> : l \in Labels}
    ELSE LET at == {c \in Grow(Labels, k - 1) \X (1..(k - 1)) : CanExtend(c[1], c[2])}
         IN  {Append(c[1], MkNode(l, c[2])) : c \in at, l \in Labels}

\* Every connective and array operator has a child.
Complete(t) == \A n \in DOMAIN t : t[n].kind \notin LeafKinds => numChildren(t, n) >= 1

\* The predicate trees of exactly k nodes over the given labels.
TreesOfSize(Labels, k) == {t \in Grow(Labels, k) : Complete(t)}

\* The chain whose nodes carry the given labels, each the parent of the next.
Chain(labels) == [i \in DOMAIN labels |-> MkNode(labels[i], i - 1)]

\* Labels of the trees that exercise the tree walks.
WalkLabels ==
    { Label("TEXT", "_fts", ""), Label("EQ", "a", "val"), Label("EQ", "b", "val"),
      Label("GT", "b", ""),
      Label("AND", "", ""), Label("OR", "", ""), Label("NOR", "", ""),
      Label("NOT", "", ""), Label("ELEM_MATCH_OBJECT", "a", "") }

WalkTrees(k) == TreesOfSize(WalkLabels, k)

\* Every leaf variant the oracle distinguishes.
OracleLeaves ==
    { Label("EQ", "a", "val"), Label("EQ", "a", "null"), Label("GT", "a", ""),
      Label("MATCH_IN", "a", ""), Label("REGEX", "a", ""), Label("MOD", "a", ""),
      Label("TEXT", "_fts", ""),
      Label("GEO", "a", "flat"), Label("GEO", "a", "cap_in"),
      Label("GEO", "a", "cap_wrap"), Label("GEO", "a", "s2_intersect"),
      Label("GEO_NEAR", "a", "flat"), Label("GEO_NEAR", "a", "sphere"),
      Label("GEO_NEAR", "a", "flat_nearSphere") }

\* A leaf or its negation: at the root, inside {a: {$elemMatch: ...}}, or
\* inside {a: {$all: [{$elemMatch: ...}]}}.
OracleTrees ==
    { Chain(w \o ng \o <<l>>) :
        w \in { <<>>, <<Label("ELEM_MATCH_OBJECT", "a", "")>>,
                <<Label("ALL", "a", ""), Label("ELEM_MATCH_OBJECT", "", "")>> },
        ng \in { <<>>, <<Label("NOT", "", "")>> },
        l \in OracleLeaves }

(* -------------------- inputs: index lists ----------------------------- *)

Num(f) == [fieldName |-> f, type |-> "NumberInt", str |-> ""]

Str(f, s) == [fieldName |-> f, type |-> "String", str |-> s]

Entry(kp, type, sparse, multikey) ==
    [keyPattern |-> kp, type |-> type, sparse |-> sparse, multikey |-> multikey]

\* IndexNames::nameToType of the first String element of a key pattern.
RECURSIVE pluginType(_, _)
pluginType(kp, k) ==
    IF k > Len(kp) THEN "INDEX_BTREE"
    ELSE IF kp[k].type = "String" THEN
        CASE kp[k].str = "hashed" -> "INDEX_HASHED"
          [] kp[k].str = "2d" -> "INDEX_2D"
          [] kp[k].str = "2dsphere" -> "INDEX_2DSPHERE"
          [] kp[k].str = "text" -> "INDEX_TEXT"
          [] OTHER -> "INDEX_HAYSTACK"
    ELSE pluginType(kp, k + 1)

KeyPatternsOn(f) ==
    { <<Num(f)>>, <<Num("b"), Num(f)>>, <<Num("b"), Num(f), Num(f)>>,
      <<Num(f), Num("b"), Num(f)>>,
      <<Str(f, "hashed")>>, <<Num("b"), Str(f, "hashed")>>,
      <<Str(f, "2d")>>, <<Str(f, "2d"), Num("b")>>,
      <<Str(f, "2dsphere")>>, <<Num("b"), Str(f, "2dsphere")>>,
      <<Str(f, "geoHaystack"), Num("b")>>,
      <<Num(f), Str("_fts", "text")>>, <<Str("_fts", "text"), Num(f)>>,
      <<Num("b"), Str("_fts", "text"), Num(f)>>,
      <<Num("a"), Str("_fts", "text"), Num(f)>> }

OracleKeyPatterns ==
    KeyPatternsOn("a") \cup KeyPatternsOn("a.a") \cup {<<Str("_fts", "hashed")>>}

\* An index is of the family its key pattern names, or a plain B-tree built
\* before the family existed.
EntriesOf(kp) ==
    { Entry(kp, ty, sp, mk) :
        ty \in {"INDEX_BTREE", pluginType(kp, 1)}, sp \in BOOLEAN, mk \in BOOLEAN }

OracleEntries == UNION {EntriesOf(kp) : kp \in OracleKeyPatterns}

CoreEntries ==
    { Entry(<<Num("a")>>, "INDEX_BTREE", FALSE, FALSE),
      Entry(<<Num("b"), Num("a"), Num("a")>>, "INDEX_BTREE", TRUE, FALSE),
      Entry(<<Str("a", "hashed")>>, "INDEX_HASHED", FALSE, FALSE),
      Entry(<<Num("b"), Str("_fts", "text"), Num("a")>>, "INDEX_TEXT", FALSE, FALSE) }

\* The lists of k different entries of S.
SeqsOfLen(S, k) == {q \in [1..k -> S] : \A i, j \in 1..k : i # j => q[i] # q[j]}

OracleCatalogs ==
    {<<e>> : e \in OracleEntries}
        \cup UNION {SeqsOfLen(CoreEntries, k) : k \in 2..MaxIndexes}

TextEntry(kp) == Entry(kp, "INDEX_TEXT", FALSE, FALSE)

\* Index lists around the collection's text index: a prefix field, a prefix
\* and a suffix field, two prefix fields, a B-tree before and after the text
\* index, fields below an array operator, and no prefix field at all.
WalkCatalogs ==
    { <<TextEntry(<<Num("a"), Str("_fts", "text")>>)>>,
      <<TextEntry(<<Num("a"), Str("_fts", "text"), Num("b")>>)>>,
      <<TextEntry(<<Num("a"), Num("b"), Str("_fts", "text")>>)>>,
      <<Entry(<<Num("b")>>, "INDEX_BTREE", FALSE, FALSE),
        TextEntry(<<Num("a"), Str("_fts", "text"), Num("b")>>)>>,
      <<TextEntry(<<Num("a"), Str("_fts", "text"), Num("b")>>),
        Entry(<<Num("a")>>, "INDEX_BTREE", FALSE, FALSE)>>,
      <<TextEntry(<<Num("a.a"), Str("a._fts", "text"), Num("a.b")>>)>>,
      <<TextEntry(<<Str("_fts", "text"), Num("b")>>)>> }

(* -------------------- the planner's calls ----------------------------- *)

Init ==
    /\ \/ \E k \in 1..MaxNodes : tree \in WalkTrees(k) /\ indices \in WalkCatalogs
       \/ tree \in OracleTrees /\ indices \in OracleCatalogs
    /\ tag = [n \in DOMAIN tree |-> NULL]
    /\ heap = <<>>
    /\ pc = "start"
    /\ verifyFailed = FALSE
    /\ fields = {}
    /\ relevantIndices = <<>>

Store(st) ==
    /\ tag' = st.tag
    /\ heap' = st.heap
    /\ verifyFailed' = st.failed

Current == [tag |-> tag, heap |-> heap, failed |-> verifyFailed]

\* QueryPlannerIXSelect::rateIndices(root, "", indices)
RateIndices ==
    /\ pc = "start"
    /\ Store(rateIndices(Current, indices, tree, 1, ""))
    /\ pc' = "rated"
    /\ UNCHANGED <<tree, indices, fields, relevantIndices>>

\* QueryPlannerIXSelect::stripInvalidAssignmentsToTextIndexes(root, indices)
\* A failed verify or invariant ends the planning attempt: no call follows.
StripInvalidAssignmentsToTextIndexes ==
    /\ pc = "rated"
    /\ ~verifyFailed
    /\ Store(stripInvalidAssignmentsToTextIndexes(Current, indices, tree, 1))
    /\ pc' = "stripped"
    /\ UNCHANGED <<tree, indices, fields, relevantIndices>>

Next == RateIndices \/ StripInvalidAssignmentsToTextIndexes

Spec == Init /\ [][Next]_vars

(* -------------------- later mutation of a tag ------------------------- *)

\* removeIndexRelevantTag applied to any tagged node once the tree is rated,
\* before or after the strip pass, any number of times.
RemoveIndexRelevantTag ==
    /\ pc \in {"rated", "stripped", "removed"}
    /\ ~verifyFailed
    /\ \E n \in DOMAIN tree, idx \in 0..(Len(indices) - 1) :
        /\ tag[n] # NULL
        /\ Store(removeIndexRelevantTag(Current, n, idx))
    /\ pc' = "removed"
    /\ UNCHANGED <<tree, indices, fields, relevantIndices>>

NextRemove == Next \/ RemoveIndexRelevantTag

SpecRemove == Init /\ [][NextRemove]_vars

(* -------------------- the planner's calls with the prefilter ---------- *)

\* QueryPlannerIXSelect::getFields(root, "", &fields)
GetFields ==
    /\ pc = "start"
    /\ fields' = getFields(fields, tree, 1, "")
    /\ pc' = "fields"
    /\ UNCHANGED <<tree, indices, tag, heap, verifyFailed, relevantIndices>>

\* QueryPlannerIXSelect::findRelevantIndices(fields, indices, &relevantIndices)
FindRelevantIndices ==
    /\ pc = "fields"
    /\ relevantIndices' = findRelevantIndices(relevantIndices, fields, indices, 1)
    /\ pc' = "relevant"
    /\ UNCHANGED <<tree, indices, tag, heap, verifyFailed, fields>>

\* QueryPlannerIXSelect::rateIndices(root, "", relevantIndices)
RateRelevantIndices ==
    /\ pc = "relevant"
    /\ Store(rateIndices(Current, relevantIndices, tree, 1, ""))
    /\ pc' = "ratedRelevant"
    /\ UNCHANGED <<tree, indices, fields, relevantIndices>>

NextPrefilter == GetFields \/ FindRelevantIndices \/ RateRelevantIndices

SpecPrefilter == Init /\ [][NextPrefilter]_vars

(* -------------------- vocabulary of the properties -------------------- *)

Nodes == DOMAIN tree

Ids == 0..(Len(indices) - 1)

IndexOf(id) == indices[id + 1]

Tagged(n) == tag[n] # NULL

TagOf(n) == heap[tag[n]]

Count(list, x) == Cardinality({k \in DOMAIN list : list[k] = x})

Assigned(n, id) ==
    Tagged(n) /\ (InList(TagOf(n).first, id) \/ InList(TagOf(n).notFirst, id))

Descendants(n) == {m \in Nodes : n \in Ancestors(tree, m)}

ChildSet(n) == {m \in Nodes : tree[m].parent = n}

UnderNor(n) == \E m \in Ancestors(tree, n) : tree[m].kind = "NOR"

\* The child of a bounds-generating NOT: its tag is the NOT's clone.
ClonedChild(n) == tree[n].parent # 0 /\ isBoundsGeneratingNot(tree, tree[n].parent)

\* The node rateIndices ran the rating loop for to produce n's lists.
RatedAs(n) == IF ClonedChild(n) THEN tree[n].parent ELSE n

PrefixPathsOf(id) == textIndexPrefixPaths(IndexOf(id).keyPattern, 1).paths

IsTextIndex(id) == IndexOf(id).type = "INDEX_TEXT"

\* Position of the first String element of a key pattern (0 if none).
RECURSIVE SentinelPos(_, _)
SentinelPos(kp, k) ==
    IF k > Len(kp) THEN 0
    ELSE IF kp[k].type = "String" THEN k
    ELSE SentinelPos(kp, k + 1)

Sorted(list) == \A j, k \in DOMAIN list : j < k => list[j] <= list[k]

(* -------------------- C1 ---------------------------------------------- *)

\* The AND n has a direct TEXT child assigned to id and, for every prefix
\* field of id, a direct equality leaf on that field assigned to id.
SatisfiedAnd(n, id) ==
    /\ \E c \in ChildSet(n) : tree[c].kind = "TEXT" /\ Assigned(c, id)
    /\ \A f \in PrefixPathsOf(id) :
          \E c \in ChildSet(n) :
              tree[c].kind = "EQ" /\ Assigned(c, id) /\ TagOf(c).path = f

\* C1: after rateIndices and stripInvalidAssignmentsToTextIndexes, for every
\* text index with a non-empty prefix and every AND node, either the AND has
\* a direct TEXT child and a direct equality leaf per prefix field, all
\* assigned to the index, or no descendant of the AND (NOT nodes and their
\* children included) is assigned to the index.
C1_TextPrefixInvariant ==
    pc = "stripped" =>
        \A id \in Ids :
            IsTextIndex(id) /\ PrefixPathsOf(id) # {} =>
                \A n \in Nodes :
                    tree[n].kind = "AND" =>
                        \/ SatisfiedAnd(n, id)
                        \/ \A m \in Descendants(n) : ~Assigned(m, id)

(* -------------------- C2 ---------------------------------------------- *)

\* C2: after rateIndices, an equality leaf whose value is null has no sparse
\* index in its first or notFirst list, whatever the type of the matched key
\* element.
C2_NullEqualityNeverOnSparse ==
    pc = "rated" =>
        \A n \in Nodes :
            tree[n].kind = "EQ" /\ isNull(tree, n) /\ Tagged(n) =>
                \A id \in Ids : IndexOf(id).sparse => ~Assigned(n, id)

(* -------------------- C3 ---------------------------------------------- *)

\* C3: after rateIndices, neither a bounds-generating NOT node nor the child
\* holding its cloned tag has a sparse or multikey index in its first or
\* notFirst list.
C3_NotNeverOnSparseOrMultikey ==
    pc = "rated" =>
        \A n \in Nodes :
            isBoundsGeneratingNot(tree, n) =>
                \A m \in {n, getChild(tree, n, 0)}, id \in Ids :
                    IndexOf(id).sparse \/ IndexOf(id).multikey => ~Assigned(m, id)

\* A rated NOT and its child assigned to one index while the list also holds
\* a sparse or multikey index over the same field.
C3_Witness ==
    /\ pc = "rated"
    /\ \E n \in Nodes, id, other \in Ids :
        /\ isBoundsGeneratingNot(tree, n)
        /\ Assigned(n, id) /\ Assigned(getChild(tree, n, 0), id)
        /\ IndexOf(other).sparse \/ IndexOf(other).multikey
        /\ \E k \in DOMAIN IndexOf(other).keyPattern :
              IndexOf(other).keyPattern[k].fieldName = TagOf(n).path

(* -------------------- C4 ---------------------------------------------- *)

\* C4 as stated: after one rateIndices pass from the root, a node carries a
\* tag exactly if bounds generation applies to it.
C4_EveryBoundsGeneratingTagged ==
    pc = "rated" =>
        \A n \in Nodes : Tagged(n) <=> isBoundsGenerating(tree, n)

\* C4 amended: after one rateIndices pass from the root, a node carries a tag
\* exactly if bounds generation applies to it and it is not beneath a NOR;
\* every tagged node owns one tag object of its own, empty lists or not.
C4_TaggedIffBoundsGeneratingOutsideNor ==
    pc = "rated" =>
        /\ \A n \in Nodes :
              Tagged(n) <=> (isBoundsGenerating(tree, n) /\ ~UnderNor(n))
        /\ \A n, m \in Nodes : Tagged(n) /\ Tagged(m) /\ n # m => tag[n] # tag[m]
        /\ Len(heap) = Cardinality({n \in Nodes : Tagged(n)})

\* A rated tree with a bounds-generating NOT, its child, and a leaf whose
\* lists are both empty, all tagged.
C4_Witness ==
    /\ pc = "rated"
    /\ \E n \in Nodes : isBoundsGeneratingNot(tree, n) /\ Tagged(n)
                        /\ Tagged(getChild(tree, n, 0))
    /\ \E n \in Nodes : /\ nodeCanUseIndexOnOwnField(tree, n) /\ Tagged(n)
                        /\ TagOf(n).first = <<>> /\ TagOf(n).notFirst = <<>>

(* -------------------- C5 ---------------------------------------------- *)

\* C5: after rateIndices and after stripInvalidAssignmentsToTextIndexes, no
\* proper descendant of a NOR node carries a tag.
C5_NothingTaggedBeneathNor ==
    pc \in {"rated", "stripped"} => \A n \in Nodes : UnderNor(n) => ~Tagged(n)

\* A stripped tree with a bounds-generating node beneath a NOR that is not
\* the root, next to a tagged node.
C5_Witness ==
    /\ pc = "stripped"
    /\ \E n \in Nodes : UnderNor(n) /\ isBoundsGenerating(tree, n)
    /\ tree[1].kind # "NOR"
    /\ \E m \in Nodes : Tagged(m)

(* -------------------- C6 ---------------------------------------------- *)

\* Element k of index id is a hashed key element of an index that is not a
\* plain B-tree.
HashedElement(id, k) ==
    /\ IndexOf(id).type # "INDEX_BTREE"
    /\ IndexOf(id).keyPattern[k].type = "String"
    /\ IndexOf(id).keyPattern[k].str = "hashed"

\* Every key element after the first that is named p is a hashed element.
LaterOnlyHashed(id, p) ==
    \A k \in 2..Len(IndexOf(id).keyPattern) :
        IndexOf(id).keyPattern[k].fieldName = p => HashedElement(id, k)

\* C6: an index recorded in a node's first or notFirst list through a hashed
\* key element of a non-B-tree index is recorded only for an equality or IN
\* leaf.
C6_HashedOnlyForEqualityOrIn ==
    pc = "rated" =>
        \A n \in Nodes, id \in Ids :
            Tagged(n) =>
                /\ InList(TagOf(n).first, id) /\ HashedElement(id, 1)
                      => tree[n].kind \in {"EQ", "MATCH_IN"}
                /\ InList(TagOf(n).notFirst, id) /\ LaterOnlyHashed(id, TagOf(n).path)
                      => tree[n].kind \in {"EQ", "MATCH_IN"}

\* A rated IN leaf recorded through a hashed first element, or through a
\* hashed later element.
C6_Witness ==
    /\ pc = "rated"
    /\ \E n \in Nodes, id \in Ids :
        /\ Tagged(n) /\ tree[n].kind = "MATCH_IN"
        /\ InList(TagOf(n).notFirst, id) /\ LaterOnlyHashed(id, TagOf(n).path)

(* -------------------- C7 ---------------------------------------------- *)

\* The key elements among positions ks of index id named p that are String
\* elements or lie strictly after the text sentinel.
AllowedElements(id, p, ks) ==
    {k \in ks :
        /\ IndexOf(id).keyPattern[k].fieldName = p
        /\ \/ IndexOf(id).keyPattern[k].type = "String"
           \/ /\ SentinelPos(IndexOf(id).keyPattern, 1) # 0
              /\ k > SentinelPos(IndexOf(id).keyPattern, 1)}

\* C7: a bounds-generating node that is not an equality leaf is accepted for a
\* text index through an ordinary key element only if that element lies
\* strictly after the text sentinel: the ids recorded for it are no more than
\* the String elements and the elements after the sentinel that carry its
\* full path.
C7_NonEqualityOnlyAfterTextSentinel ==
    pc = "rated" =>
        \A n \in Nodes, id \in Ids :
            /\ Tagged(n) /\ ~ClonedChild(n)
            /\ tree[n].kind # "EQ"
            /\ IsTextIndex(id)
            => /\ Count(TagOf(n).first, id)
                     <= Cardinality(AllowedElements(id, TagOf(n).path, {1}))
               /\ Count(TagOf(n).notFirst, id)
                     <= Cardinality(AllowedElements(id, TagOf(n).path,
                                        2..Len(IndexOf(id).keyPattern)))

(* -------------------- C8 ---------------------------------------------- *)

\* C8: the child of a bounds-generating NOT is tagged with the NOT's path and
\* lists, and a later removal from either tag leaves the other tag as it was.
C8_CloneIsIndependent ==
    [][\A n \in Nodes :
          isBoundsGeneratingNot(tree, n) =>
              LET c == getChild(tree, n, 0)
              IN  /\ pc = "start" /\ pc' = "rated" /\ tag'[n] # NULL =>
                        /\ tag'[c] # NULL
                        /\ heap'[tag'[c]] = heap'[tag'[n]]
                  /\ pc' = "removed" /\ Tagged(n) /\ Tagged(c) =>
                        \/ heap'[tag'[n]] = TagOf(n)
                        \/ heap'[tag'[c]] = TagOf(c)]_vars

\* A removal has emptied the list of a NOT's child while the NOT still holds
\* the id.
C8_Witness ==
    /\ pc = "removed"
    /\ \E n \in Nodes, id \in Ids :
        /\ isBoundsGeneratingNot(tree, n)
        /\ Assigned(n, id)
        /\ Tagged(getChild(tree, n, 0)) /\ ~Assigned(getChild(tree, n, 0), id)

(* -------------------- C9 ---------------------------------------------- *)

\* C9: if the root is an AND whose direct children include a TEXT leaf
\* assigned to text index id and, for every prefix field of id, an equality
\* leaf on that field assigned to id, then stripping leaves id in every list
\* of a direct child of the root that held it.
C9_ValidTextAssignmentsKept ==
    [][pc = "rated" /\ pc' = "stripped" =>
          \A id \in Ids :
              /\ IsTextIndex(id)
              /\ tree[1].kind = "AND"
              /\ SatisfiedAnd(1, id)
              => \A c \in ChildSet(1) :
                    Tagged(c) =>
                        /\ tag'[c] = tag[c]
                        /\ InList(TagOf(c).first, id) => InList(heap'[tag'[c]].first, id)
                        /\ InList(TagOf(c).notFirst, id)
                              => InList(heap'[tag'[c]].notFirst, id)]_vars

\* A stripped root AND with a TEXT child, an equality leaf per prefix field
\* and a further child, all still assigned to a text index with a prefix.
C9_Witness ==
    /\ pc = "stripped"
    /\ tree[1].kind = "AND"
    /\ \E id \in Ids :
        /\ IsTextIndex(id) /\ PrefixPathsOf(id) # {}
        /\ SatisfiedAnd(1, id)
        /\ \E c \in ChildSet(1) : tree[c].kind \notin {"TEXT", "EQ"} /\ Assigned(c, id)

(* -------------------- C10 --------------------------------------------- *)

\* The lists of n's tag are those the oracle yields for node r: id is in
\* first exactly if the first key element is named by the tag's path and
\* accepted, in notFirst exactly if a later one is; both lists ascend and
\* first holds no id twice.
ListsAsOracle(n, r) ==
    /\ \A id \in Ids :
          LET kp == IndexOf(id).keyPattern
          IN  /\ InList(TagOf(n).first, id) <=>
                    /\ kp[1].fieldName = TagOf(n).path
                    /\ compatible(kp[1], IndexOf(id), tree, r) = "true"
              /\ InList(TagOf(n).notFirst, id) <=>
                    \E k \in 2..Len(kp) :
                        /\ kp[k].fieldName = TagOf(n).path
                        /\ compatible(kp[k], IndexOf(id), tree, r) = "true"
              /\ Count(TagOf(n).first, id) <= 1
    /\ Sorted(TagOf(n).first)
    /\ Sorted(TagOf(n).notFirst)

\* C10 as stated: the lists of every node tagged by rateIndices are those
\* the oracle yields for that node.
C10_ListsMatchOracleForTaggedNode ==
    pc = "rated" => \A n \in Nodes : Tagged(n) => ListsAsOracle(n, n)

\* C10 amended: the lists of every tagged node are those the oracle yields
\* for the node the rating loop ran for: the node itself, or the NOT above it
\* for the child that holds a NOT's cloned tag.
C10_ListsMatchOracleForRatedNode ==
    pc = "rated" => \A n \in Nodes : Tagged(n) => ListsAsOracle(n, RatedAs(n))

\* A rated node with an id in first and another id twice in notFirst.
C10_Witness ==
    /\ pc = "rated"
    /\ \E n \in Nodes, id \in Ids :
        /\ Tagged(n)
        /\ TagOf(n).first # <<>>
        /\ Count(TagOf(n).notFirst, id) >= 2
        /\ Len(indices) >= 2

(* -------------------- C11 --------------------------------------------- *)

\* List a is list b with some elements left out, the others in b's order.
RECURSIVE IsSubseq(_, _)
IsSubseq(a, b) ==
    IF a = <<>> THEN TRUE
    ELSE IF b = <<>> THEN FALSE
    ELSE IF Head(a) = Head(b) THEN IsSubseq(Tail(a), Tail(b))
    ELSE IsSubseq(a, Tail(b))

\* The indexes the strip pass enforces the prefix rule for.
Enforced(id) == IsTextIndex(id) /\ PrefixPathsOf(id) # {}

\* The tags rateIndices(root, "", indices) leaves on an untagged tree.
RatedState ==
    rateIndices([tag |-> [n \in DOMAIN tree |-> NULL], heap |-> <<>>, failed |-> FALSE],
                indices, tree, 1, "")

\* C11: stripInvalidAssignmentsToTextIndexes only removes: every node keeps
\* the tag object it had or stays untagged, no tag object appears or
\* disappears, every tag keeps its path, each list afterwards is the list
\* before with some ids left out in the same order, and the ids of an index
\* that is not of type TEXT, or of a TEXT index without a field before the
\* text sentinel, occur as often as before.
C11_StripOnlyRemoves ==
    [][pc = "rated" /\ pc' = "stripped" =>
          /\ tag' = tag
          /\ Len(heap') = Len(heap)
          /\ \A r \in DOMAIN heap :
                /\ heap'[r].path = heap[r].path
                /\ IsSubseq(heap'[r].first, heap[r].first)
                /\ IsSubseq(heap'[r].notFirst, heap[r].notFirst)
                /\ \A id \in Ids :
                      ~Enforced(id) =>
                          /\ Count(heap'[r].first, id) = Count(heap[r].first, id)
                          /\ Count(heap'[r].notFirst, id)
                                = Count(heap[r].notFirst, id)]_vars

\* A stripped tag that lost the id of an enforced text index from a list that
\* still holds, in the order of before, two ids of an index the pass does not
\* enforce.
C11_Witness ==
    /\ pc = "stripped"
    /\ \E r \in DOMAIN heap, id, other \in Ids :
        /\ Enforced(id) /\ ~Enforced(other)
        /\ InList(RatedState.heap[r].notFirst, id)
        /\ ~InList(heap[r].notFirst, id)
        /\ Count(heap[r].notFirst, other) >= 2
        /\ heap[r].notFirst # RatedState.heap[r].notFirst

(* -------------------- C12 --------------------------------------------- *)

\* The paths of the tag objects of a heap.
TagPaths(h) == {h[r].path : r \in DOMAIN h}

\* The catalog entries a list of ids into 'cat' stands for, in list order.
EntriesAt(cat, ids) == [k \in DOMAIN ids |-> cat[ids[k] + 1]]

\* The entries of a list whose first key field is among 'fields'.
RECURSIVE RetainedOnly(_)
RetainedOnly(es) ==
    IF es = <<>> THEN <<>>
    ELSE (IF Head(es).keyPattern[1].fieldName \in fields THEN <<Head(es)>> ELSE <<>>)
             \o RetainedOnly(Tail(es))

\* C12: the paths of the tags rateIndices(root, "") produces are the paths
\* getFields(root, "") produces, and rating against
\* findRelevantIndices(getFields(root), catalog) tags the same nodes with the
\* same paths as rating against the full catalog, each first list standing
\* for the same catalog entries in the same order; the notFirst lists differ
\* only by the entries the prefilter dropped.
C12_PrefilterKeepsPrefixUsable ==
    pc = "ratedRelevant" =>
        LET rated == RatedState
        IN  /\ TagPaths(heap) = fields
            /\ TagPaths(rated.heap) = fields
            /\ \A n \in Nodes :
                  /\ Tagged(n) <=> rated.tag[n] # NULL
                  /\ Tagged(n) =>
                        LET full == rated.heap[rated.tag[n]]
                        IN  /\ TagOf(n).path = full.path
                            /\ EntriesAt(relevantIndices, TagOf(n).first)
                                  = EntriesAt(indices, full.first)
                            /\ EntriesAt(relevantIndices, TagOf(n).notFirst)
                                  = RetainedOnly(EntriesAt(indices, full.notFirst))

\* A tree rated against a filtered list that lost an index: a node's first
\* list names the same entry under another id, and the suffix assignments
\* the full catalog gives the node to the dropped index are gone.
C12_Witness ==
    /\ pc = "ratedRelevant"
    /\ Len(relevantIndices) < Len(indices)
    /\ \E n \in Nodes :
        /\ Tagged(n)
        /\ TagOf(n).first # <<>>
        /\ TagOf(n).first # RatedState.heap[RatedState.tag[n]].first
        /\ TagOf(n).notFirst = <<>>
        /\ RatedState.heap[RatedState.tag[n]].notFirst # <<>>

====
